---- MODULE Spec2Model ----
(***************************************************************************)
(* Model of the Form 283 extraction pipeline's validation core:            *)
(*   src/src/models/schemas.py          Form283Data and its composites      *)
(*   src/src/models/validation.py       FieldCorrection, ValidationReport   *)
(*   src/src/services/validation_service.py   ValidationService             *)
(*   src/src/services/openai_service.py       extract_and_validate          *)
(*                                                                         *)
(* A Python string is a sequence of one-character strings.  The Hebrew     *)
(* aliases used as dictionary keys are written with the Python field       *)
(* names, e.g. "dateOfBirth.day" stands for the dumped key path            *)
(* <alias of dateOfBirth>.<alias of day>.  The character "sup2" stands for *)
(* U+00B2 (superscript two), a character for which str.isdigit() is True   *)
(* and int() raises ValueError.                                            *)
(***************************************************************************)
EXTENDS Integers, Sequences, FiniteSets, TLC

VARIABLES raw_extracted, edits, form_data, pc, validate_result, eav_result,
          calendar_year, history, proc, ui

\* The state beyond one run of the extraction pipeline: the validate calls
\* made so far, the last process_document call, the UI session.
appVars == <<history, proc, ui>>

vars == <<raw_extracted, edits, form_data, pc, validate_result, eav_result,
          calendar_year, history, proc, ui>>

\* How many fields of the base document the extraction step may change.
MaxEdits == 2

-----------------------------------------------------------------------------
(* Python strings                                                          *)

DecimalDigits == {"0", "1", "2", "3", "4", "5", "6", "7", "8", "9"}

\* Characters c with c.isdigit() == True.
DigitChars == DecimalDigits \cup {"sup2"}

Whitespace == {" "}

DigitChar == <<"0", "1", "2", "3", "4", "5", "6", "7", "8", "9">>

\* The string of the decimal digits ds, e.g. D(<<1, 2>>) is "12".
D(ds) == [i \in DOMAIN ds |-> DigitChar[ds[i] + 1]]

\* None, as a value distinct from every string.
PyNone == <<"<None>">>

\* str(v)
PyStr(v) == IF v = PyNone THEN <<"N", "o", "n", "e">> ELSE v

\* bool(v) for a string or None
Truthy(v) == v # PyNone /\ v # <<>>

\* s.replace(c, "")
Replace(s, c) == SelectSeq(s, LAMBDA ch : ch # c)

\* s.isdigit()
IsDigit(s) == Len(s) > 0 /\ \A i \in DOMAIN s : s[i] \in DigitChars

\* s.startswith(p)
StartsWith(s, p) == Len(s) >= Len(p) /\ SubSeq(s, 1, Len(p)) = p

\* int(s) raises ValueError unless every character is a decimal digit
\* (called only on strings for which isdigit() holds).
IntRaises(s) == \E i \in DOMAIN s : s[i] \notin DecimalDigits

DigitValue(ch) == CHOOSE n \in 0..9 : DigitChar[n + 1] = ch

RECURSIVE IntOf(_)
IntOf(s) ==
    IF s = <<>> THEN 0
    ELSE 10 * IntOf(SubSeq(s, 1, Len(s) - 1)) + DigitValue(s[Len(s)])

RECURSIVE LStrip(_)
LStrip(s) ==
    IF s # <<>> /\ s[1] \in Whitespace THEN LStrip(Tail(s)) ELSE s

RECURSIVE RStrip(_)
RStrip(s) ==
    IF s # <<>> /\ s[Len(s)] \in Whitespace
    THEN RStrip(SubSeq(s, 1, Len(s) - 1)) ELSE s

\* s.strip()
Strip(s) == RStrip(LStrip(s))

-----------------------------------------------------------------------------
(* Form283Data: keys in declaration (= model_dump) order                   *)

TopKeys == <<"lastName", "firstName", "idNumber", "gender", "dateOfBirth",
             "address", "landlinePhone", "mobilePhone", "jobType",
             "dateOfInjury", "timeOfInjury", "accidentLocation",
             "accidentAddress", "accidentDescription", "injuredBodyPart",
             "signature", "formFillingDate", "formReceiptDateAtClinic",
             "medicalInstitutionFields">>

DateField == <<"day", "month", "year">>

AddressField == <<"street", "houseNumber", "entrance", "apartment", "city",
                  "postalCode", "poBox">>

MedicalInstitutionFields ==
    <<"healthFundMember", "natureOfAccident", "medicalDiagnoses">>

DateKeys == {"dateOfBirth", "dateOfInjury", "formFillingDate",
             "formReceiptDateAtClinic"}

\* The sub-keys of a top-level key; <<>> for a plain string field.
SubKeys(k) ==
    IF k \in DateKeys THEN DateField
    ELSE IF k = "address" THEN AddressField
    ELSE IF k = "medicalInstitutionFields" THEN MedicalInstitutionFields
    ELSE <<>>

IsNested(k) == SubKeys(k) # <<>>

Path(k, sub) == k \o "." \o sub

Range(s) == {s[i] : i \in DOMAIN s}

NestedLeaves(k) == {Path(k, sub) : sub \in Range(SubKeys(k))}

Leaves ==
    UNION {IF IsNested(k) THEN NestedLeaves(k) ELSE {k} : k \in Range(TopKeys)}

\* The keys whose value is a nested model (a dict in JSON).
NestedKeys == {k \in Range(TopKeys) : IsNested(k)}

\* A raw document (the parsed JSON answer) holds a value under every leaf
\* path and, under every nested key, whether the answer has a dict there
\* (PyDict) or has no such key (PyNone, what raw.get(key) returns). Inside
\* a dict a sub-key that is absent and a sub-key that is null are both
\* PyNone: dict.get and the field default give the same for the two.
PyDict == <<"<dict>">>

RawKeys == Leaves \cup NestedKeys

\* isinstance(raw.get(k), dict) for a nested key k.
RawIsDict(raw, k) == raw[k] = PyDict

\* convert_to_string without the strip: str(v) as supplied.
convert_to_string_verbatim(v) == IF v = PyNone THEN <<>> ELSE PyStr(v)

\* The field validators (mode='before') of the four models.
convert_to_string(v) == IF v = PyNone THEN <<>> ELSE Strip(PyStr(v))

\* Form283Data(**raw): every leaf goes through convert_to_string; a key
\* that is missing takes its default: "" for a string field and, through
\* default_factory, a nested model with every field "".
Form283Data(raw) ==
    LET defaulted ==
            UNION {NestedLeaves(k) : k \in {n \in NestedKeys :
                                                ~RawIsDict(raw, n)}}
    IN  [l \in Leaves |->
            IF l \in defaulted THEN <<>> ELSE convert_to_string(raw[l])]

\* validated_form.model_dump(by_alias=True): the same leaves in the same
\* order, keyed by alias, with a dict under every nested key.
model_dump(form) ==
    [x \in RawKeys |-> IF x \in Leaves THEN form[x] ELSE PyDict]

\* DateField.is_empty with "or" in place of "and".
DateField_is_empty_any(form, k) ==
    \/ form[Path(k, "day")] = <<>>
    \/ form[Path(k, "month")] = <<>>
    \/ form[Path(k, "year")] = <<>>

DateField_is_empty(form, k) ==
    /\ form[Path(k, "day")] = <<>>
    /\ form[Path(k, "month")] = <<>>
    /\ form[Path(k, "year")] = <<>>

AddressField_is_empty(form) ==
    \A i \in DOMAIN AddressField : form[Path("address", AddressField[i])] = <<>>

-----------------------------------------------------------------------------
(* Completeness counter (schemas.py)                                       *)

simple_fields == <<"lastName", "firstName", "idNumber", "gender",
                   "landlinePhone", "mobilePhone", "jobType", "timeOfInjury",
                   "accidentLocation", "accidentAddress",
                   "accidentDescription", "injuredBodyPart", "signature">>

date_fields == <<"dateOfBirth", "dateOfInjury", "formFillingDate",
                 "formReceiptDateAtClinic">>

medical_fields == <<"medicalInstitutionFields.healthFundMember",
                    "medicalInstitutionFields.natureOfAccident",
                    "medicalInstitutionFields.medicalDiagnoses">>

\* The loops "for field in fields: total += 1; if field and field != ''".
RECURSIVE CountFilledStrings(_, _, _)
CountFilledStrings(form, fields, i) ==
    IF i > Len(fields) THEN 0
    ELSE (IF form[fields[i]] # <<>> THEN 1 ELSE 0)
         + CountFilledStrings(form, fields, i + 1)

\* The loop "for date_field in date_fields: if not date_field.is_empty()".
RECURSIVE CountFilledDates(_, _)
CountFilledDates(form, i) ==
    IF i > Len(date_fields) THEN 0
    ELSE (IF ~DateField_is_empty(form, date_fields[i]) THEN 1 ELSE 0)
         + CountFilledDates(form, i + 1)

\* Returns <<filled, total>>.
get_filled_fields_count(form) ==
    LET filled == CountFilledStrings(form, simple_fields, 1)
                  + CountFilledDates(form, 1)
                  + (IF ~AddressField_is_empty(form) THEN 1 ELSE 0)
                  + CountFilledStrings(form, medical_fields, 1)
        total == Len(simple_fields) + Len(date_fields) + 1
                 + Len(medical_fields)
    IN  <<filled, total>>

\* A float percentage n / d * 100 is kept exact as the fraction num / den.
Pct(n, d) == [num |-> 100 * n, den |-> d]
Float(n) == [num |-> n, den |-> 1]
ScoreEq(a, b) == a.num * b.den = b.num * a.den
ScoreLE(a, b) == a.num * b.den <= b.num * a.den

\* get_completeness_percentage rounding the ratio to one decimal before
\* scaling it: round(filled / total, 1) * 100.
get_completeness_percentage_rounded(form) ==
    LET c == get_filled_fields_count(form)
    IN  IF c[2] = 0 THEN Float(0)
        ELSE Pct((10 * c[1] + (c[2] \div 2)) \div c[2], 10)

get_completeness_percentage(form) ==
    LET c == get_filled_fields_count(form)
    IN  IF c[2] = 0 THEN Float(0) ELSE Pct(c[1], c[2])

-----------------------------------------------------------------------------
(* FieldCorrection and ValidationReport (validation.py)                    *)

\* A reason is the fixed text of its f-string and the sequence of the
\* strings formatted into it.
Reason(text, args) == [text |-> text, args |-> args]

FieldCorrection(field, raw_value, validated_value, reason, auto_corrected, issue_type) ==
    [field |-> field, raw_value |-> raw_value,
     validated_value |-> validated_value, reason |-> reason,
     auto_corrected |-> auto_corrected, issue_type |-> issue_type]

\* The numbers the summary f-string embeds, in the order it embeds them.
Summary(filled_count, total_count, completeness_score, unchanged_fields, total_fields, accuracy_score, auto_corrections_count, quality_issues_count) ==
    [filled_count |-> filled_count, total_count |-> total_count,
     completeness_score |-> completeness_score,
     unchanged_fields |-> unchanged_fields, total_fields |-> total_fields,
     accuracy_score |-> accuracy_score,
     auto_corrections_count |-> auto_corrections_count,
     quality_issues_count |-> quality_issues_count]

NoReport ==
    [is_valid |-> FALSE, accuracy_score |-> Float(0),
     completeness_score |-> Float(0), corrections |-> <<>>,
     filled_count |-> 0, total_count |-> 0, missing_fields |-> <<>>,
     summary |-> Summary(0, 0, Float(0), 0, 0, Float(0), 0, 0)]

\* The outcome of a call: a returned value or a raised exception.
Returned(report) == [kind |-> "returned", error |-> "", report |-> report]
Raised(error) == [kind |-> "raised", error |-> error, report |-> NoReport]
NotCalled == [kind |-> "none", error |-> "", report |-> NoReport]

\* ValidationReport(...): the constructor enforces ge=0, le=100 on both
\* scores and raises pydantic's ValidationError otherwise.
ValidationReport(accuracy_score, completeness_score, corrections, filled_count, total_count, missing_fields, summary) ==
    IF /\ ScoreLE(Float(0), accuracy_score)
       /\ ScoreLE(accuracy_score, Float(100))
       /\ ScoreLE(Float(0), completeness_score)
       /\ ScoreLE(completeness_score, Float(100))
    THEN Returned([is_valid |-> TRUE, accuracy_score |-> accuracy_score,
                   completeness_score |-> completeness_score,
                   corrections |-> corrections,
                   filled_count |-> filled_count,
                   total_count |-> total_count,
                   missing_fields |-> missing_fields,
                   summary |-> summary])
    ELSE Raised("ValidationError")

-----------------------------------------------------------------------------
(* ValidationService (validation_service.py): delta comparison             *)

\* The substring tests of _get_reason on the Hebrew key (path): phone,
\* then ID, then date, then address, then the generic text.
_get_reason(k) ==
    IF k = "mobilePhone"
    THEN Reason("Israeli mobile phone numbers must start with 05", <<>>)
    ELSE IF k = "landlinePhone"
    THEN Reason("Phone number format corrected", <<>>)
    ELSE IF k = "idNumber"
    THEN Reason("Israeli ID number normalized to 9 digits", <<>>)
    ELSE IF k \in DateKeys
    THEN Reason("Date format normalized", <<>>)
    ELSE IF k \in {"address", "accidentAddress"}
    THEN Reason("Address field normalized", <<>>)
    ELSE Reason("Field value normalized during validation", <<>>)

\* The FieldCorrection of the comparison loops marked as not corrected.
DeltaCorrection_not_auto(k, full_key, raw_v, validated_v) ==
    FieldCorrection(full_key,
                    IF Truthy(raw_v) THEN PyStr(raw_v) ELSE <<>>,
                    IF Truthy(validated_v) THEN PyStr(validated_v) ELSE <<>>,
                    _get_reason(k), FALSE, "correction")

\* The FieldCorrection both comparison loops build.
DeltaCorrection(k, full_key, raw_v, validated_v) ==
    FieldCorrection(full_key,
                    IF Truthy(raw_v) THEN PyStr(raw_v) ELSE <<>>,
                    IF Truthy(validated_v) THEN PyStr(validated_v) ELSE <<>>,
                    _get_reason(k), TRUE, "correction")

RECURSIVE CompareNestedFrom(_, _, _, _)
CompareNestedFrom(k, raw, validated_dict, i) ==
    IF i > Len(SubKeys(k)) THEN <<>>
    ELSE LET full_key == Path(k, SubKeys(k)[i])
             raw_nested == raw[full_key]
             validated_nested == validated_dict[full_key]
         IN  (IF PyStr(raw_nested) # PyStr(validated_nested)
              THEN <<DeltaCorrection(k, full_key, raw_nested,
                                     validated_nested)>>
              ELSE <<>>)
             \o CompareNestedFrom(k, raw, validated_dict, i + 1)

_compare_nested(k, raw, validated_dict) ==
    IF ~RawIsDict(raw, k) THEN <<>>
    ELSE CompareNestedFrom(k, raw, validated_dict, 1)

RECURSIVE FindCorrectionsFrom(_, _, _)
FindCorrectionsFrom(raw, validated_dict, i) ==
    IF i > Len(TopKeys) THEN <<>>
    ELSE LET k == TopKeys[i]
         IN  (IF IsNested(k)
              THEN _compare_nested(k, raw, validated_dict)
              ELSE IF ~Truthy(raw[k]) /\ ~Truthy(validated_dict[k])
              THEN <<>>
              ELSE IF PyStr(raw[k]) # PyStr(validated_dict[k])
              THEN <<DeltaCorrection(k, k, raw[k], validated_dict[k])>>
              ELSE <<>>)
             \o FindCorrectionsFrom(raw, validated_dict, i + 1)

_find_corrections(raw_dict, validated_dict) ==
    FindCorrectionsFrom(raw_dict, validated_dict, 1)

\* The leaf paths in dump order.
RECURSIVE LeafSeqFrom(_)
LeafSeqFrom(i) ==
    IF i > Len(TopKeys) THEN <<>>
    ELSE LET k == TopKeys[i]
         IN  (IF IsNested(k)
              THEN [j \in DOMAIN SubKeys(k) |-> Path(k, SubKeys(k)[j])]
              ELSE <<k>>)
             \o LeafSeqFrom(i + 1)

LeafSeq == LeafSeqFrom(1)

RECURSIVE CountNonEmptyFrom(_, _)
CountNonEmptyFrom(data_dict, i) ==
    IF i > Len(LeafSeq) THEN 0
    ELSE (IF Truthy(data_dict[LeafSeq[i]]) THEN 1 ELSE 0)
         + CountNonEmptyFrom(data_dict, i + 1)

\* _count_non_empty_fields without the recursion: a nested dict is one
\* value, and a non-empty dict is truthy.
_count_non_empty_fields_flat(data_dict) ==
    Cardinality({i \in DOMAIN TopKeys :
                    IsNested(TopKeys[i]) \/ Truthy(data_dict[TopKeys[i]])})

\* Counts the non-empty leaves, descending into nested dicts.
_count_non_empty_fields(data_dict) == CountNonEmptyFrom(data_dict, 1)

\* _get_missing_fields over the logical fields: a date, address or medical
\* composite is listed by its own name when all its sub-fields are empty
\* and is not entered otherwise.
_get_missing_fields_units(data_dict) ==
    SelectSeq(TopKeys,
        LAMBDA k : IF IsNested(k)
                   THEN \A l \in NestedLeaves(k) : ~Truthy(data_dict[l])
                   ELSE ~Truthy(data_dict[k]))

\* The dotted paths of the empty leaves, in dump order.
_get_missing_fields(data_dict) ==
    SelectSeq(LeafSeq, LAMBDA l : ~Truthy(data_dict[l]))

-----------------------------------------------------------------------------
(* ValidationService._check_field_quality                                  *)

\* f"{n}" for a natural number n.
RECURSIVE IntToStr(_)
IntToStr(n) ==
    IF n < 10 THEN <<DigitChar[n + 1]>>
    ELSE IntToStr(n \div 10) \o <<DigitChar[(n % 10) + 1]>>

\* QualityIssue recording the separator-stripped form as the raw value.
QualityIssue_stripped(field, value, text, args) ==
    FieldCorrection(field, Replace(Replace(value, " "), "-"), value, Reason(text, args), FALSE, "quality")

QualityIssue(field, value, text, args) ==
    FieldCorrection(field, value, value, Reason(text, args), FALSE, "quality")

\* What one block of checks does: the issues it appends, or the exception
\* that leaves the function.
Appends(issues) == [raised |-> FALSE, issues |-> issues]
Raises == [raised |-> TRUE, issues |-> <<>>]

\* current_year = datetime.now().year: the year of the host's clock.
current_year_from_clock == calendar_year

\* current_year = 2025, the literal of the year block.
current_year == 2025

\* CheckIdNumber testing id_number itself, separators included.
CheckIdNumber_unstripped(d) ==
    LET id_number == d["idNumber"]
    IN  IF id_number = <<>> THEN Appends(<<>>)
        ELSE IF ~IsDigit(id_number)
        THEN Appends(<<QualityIssue("idNumber", id_number,
                 "ID number contains non-numeric characters", <<>>)>>)
        ELSE IF Len(id_number) # 9
        THEN Appends(<<QualityIssue("idNumber", id_number,
                 "ID number should be 9 digits, got {}",
                 <<IntToStr(Len(id_number))>>)>>)
        ELSE Appends(<<>>)

CheckIdNumber(d) ==
    LET id_number == d["idNumber"]
        cleaned_id == Replace(Replace(id_number, " "), "-")
    IN  IF id_number = <<>> THEN Appends(<<>>)
        ELSE IF ~IsDigit(cleaned_id)
        THEN Appends(<<QualityIssue("idNumber", id_number,
                 "ID number contains non-numeric characters", <<>>)>>)
        ELSE IF Len(cleaned_id) # 9
        THEN Appends(<<QualityIssue("idNumber", id_number,
                 "ID number should be 9 digits, got {}",
                 <<IntToStr(Len(cleaned_id))>>)>>)
        ELSE Appends(<<>>)

\* .replace("-", "").replace(" ", "").replace("(", "").replace(")", "")
CleanPhone(s) == Replace(Replace(Replace(Replace(s, "-"), " "), "("), ")")

\* CheckMobile with the length test on every number that starts with 0.
CheckMobile_any_prefix(d) ==
    LET mobile == d["mobilePhone"]
        cleaned_mobile == CleanPhone(mobile)
    IN  IF mobile = <<>> THEN Appends(<<>>)
        ELSE IF ~IsDigit(cleaned_mobile)
        THEN Appends(<<QualityIssue("mobilePhone", mobile,
                 "Phone number contains non-numeric characters", <<>>)>>)
        ELSE IF ~StartsWith(cleaned_mobile, <<"0">>)
        THEN Appends(<<QualityIssue("mobilePhone", mobile,
                 "Israeli phone numbers should start with 0", <<>>)>>)
        ELSE IF Len(cleaned_mobile) # 10
        THEN Appends(<<QualityIssue("mobilePhone", mobile,
                 "Mobile phone should be 10 digits, got {}",
                 <<IntToStr(Len(cleaned_mobile))>>)>>)
        ELSE Appends(<<>>)

CheckMobile(d) ==
    LET mobile == d["mobilePhone"]
        cleaned_mobile == CleanPhone(mobile)
    IN  IF mobile = <<>> THEN Appends(<<>>)
        ELSE IF ~IsDigit(cleaned_mobile)
        THEN Appends(<<QualityIssue("mobilePhone", mobile,
                 "Phone number contains non-numeric characters", <<>>)>>)
        ELSE IF ~StartsWith(cleaned_mobile, <<"0">>)
        THEN Appends(<<QualityIssue("mobilePhone", mobile,
                 "Israeli phone numbers should start with 0", <<>>)>>)
        ELSE IF StartsWith(cleaned_mobile, <<"0", "5">>)
                /\ Len(cleaned_mobile) # 10
        THEN Appends(<<QualityIssue("mobilePhone", mobile,
                 "Mobile phone should be 10 digits, got {}",
                 <<IntToStr(Len(cleaned_mobile))>>)>>)
        ELSE Appends(<<>>)

\* CheckLandline without the exemption of numbers that start with 05.
CheckLandline_no_exemption(d) ==
    LET landline == d["landlinePhone"]
        cleaned_landline == CleanPhone(landline)
    IN  IF landline = <<>> THEN Appends(<<>>)
        ELSE IF ~IsDigit(cleaned_landline)
        THEN Appends(<<QualityIssue("landlinePhone", landline,
                 "Phone number contains non-numeric characters", <<>>)>>)
        ELSE IF ~StartsWith(cleaned_landline, <<"0">>)
        THEN Appends(<<QualityIssue("landlinePhone", landline,
                 "Israeli phone numbers should start with 0", <<>>)>>)
        ELSE IF Len(cleaned_landline) # 9
        THEN Appends(<<QualityIssue("landlinePhone", landline,
                 "Landline phone should be 9 digits, got {}",
                 <<IntToStr(Len(cleaned_landline))>>)>>)
        ELSE Appends(<<>>)

CheckLandline(d) ==
    LET landline == d["landlinePhone"]
        cleaned_landline == CleanPhone(landline)
    IN  IF landline = <<>> THEN Appends(<<>>)
        ELSE IF ~IsDigit(cleaned_landline)
        THEN Appends(<<QualityIssue("landlinePhone", landline,
                 "Phone number contains non-numeric characters", <<>>)>>)
        ELSE IF ~StartsWith(cleaned_landline, <<"0">>)
        THEN Appends(<<QualityIssue("landlinePhone", landline,
                 "Israeli phone numbers should start with 0", <<>>)>>)
        ELSE IF /\ ~StartsWith(cleaned_landline, <<"0", "5">>)
                /\ StartsWith(cleaned_landline, <<"0">>)
                /\ Len(cleaned_landline) # 9
        THEN Appends(<<QualityIssue("landlinePhone", landline,
                 "Landline phone should be 9 digits, got {}",
                 <<IntToStr(Len(cleaned_landline))>>)>>)
        ELSE Appends(<<>>)

\* The day and month blocks without the "v and": "if not v.isdigit()",
\* which is true of the empty string.
CheckDayOrMonth_blank_flagged(d, date_field_name, sub, numeric_text, range_text, lo, hi) ==
    LET field == Path(date_field_name, sub)
        v == d[field]
    IN  IF ~IsDigit(v)
        THEN Appends(<<QualityIssue(field, v, numeric_text, <<>>)>>)
        ELSE IF IntRaises(v) THEN Raises
        ELSE IF ~(lo <= IntOf(v) /\ IntOf(v) <= hi)
        THEN Appends(<<QualityIssue(field, v, range_text, <<v>>)>>)
        ELSE Appends(<<>>)

\* The day and month blocks: "if v and not v.isdigit() ... elif v and
\* v.isdigit() and not (lo <= int(v) <= hi)".
CheckDayOrMonth(d, date_field_name, sub, numeric_text, range_text, lo, hi) ==
    LET field == Path(date_field_name, sub)
        v == d[field]
    IN  IF v # <<>> /\ ~IsDigit(v)
        THEN Appends(<<QualityIssue(field, v, numeric_text, <<>>)>>)
        ELSE IF v # <<>> /\ IsDigit(v)
        THEN IF IntRaises(v) THEN Raises
             ELSE IF ~(lo <= IntOf(v) /\ IntOf(v) <= hi)
             THEN Appends(<<QualityIssue(field, v, range_text, <<v>>)>>)
             ELSE Appends(<<>>)
        ELSE Appends(<<>>)

CheckDay(d, date_field_name) ==
    CheckDayOrMonth(d, date_field_name, "day", "Day must be numeric",
                    "Day must be 1-31, got {}", 1, 31)

CheckMonth(d, date_field_name) ==
    CheckDayOrMonth(d, date_field_name, "month", "Month must be numeric",
                    "Month must be 1-12, got {}", 1, 12)

CheckYear(d, date_field_name) ==
    LET field == Path(date_field_name, "year")
        year == d[field]
    IN  IF year # <<>> /\ ~IsDigit(year)
        THEN Appends(<<QualityIssue(field, year, "Year must be numeric",
                                    <<>>)>>)
        ELSE IF year # <<>> /\ IsDigit(year)
        THEN IF IntRaises(year) THEN Raises
             ELSE IF ~(1900 <= IntOf(year) /\ IntOf(year) <= current_year + 1)
             THEN Appends(<<QualityIssue(field, year,
                      "Year should be 1900-{}, got {}",
                      <<IntToStr(current_year + 1), year>>)>>)
             ELSE Appends(<<>>)
        ELSE Appends(<<>>)

\* CheckPostalCode with a strict lower bound: 5 < len <= 7.
CheckPostalCode_strict(d) ==
    LET postal_code == d["address.postalCode"]
        cleaned_postal == Replace(Replace(postal_code, " "), "-")
    IN  IF postal_code = <<>> THEN Appends(<<>>)
        ELSE IF ~IsDigit(cleaned_postal)
        THEN Appends(<<QualityIssue("address.postalCode", postal_code,
                 "Postal code must be numeric", <<>>)>>)
        ELSE IF ~(5 < Len(cleaned_postal) /\ Len(cleaned_postal) <= 7)
        THEN Appends(<<QualityIssue("address.postalCode", postal_code,
                 "Postal code should be 5-7 digits, got {}",
                 <<IntToStr(Len(cleaned_postal))>>)>>)
        ELSE Appends(<<>>)

CheckPostalCode(d) ==
    LET postal_code == d["address.postalCode"]
        cleaned_postal == Replace(Replace(postal_code, " "), "-")
    IN  IF postal_code = <<>> THEN Appends(<<>>)
        ELSE IF ~IsDigit(cleaned_postal)
        THEN Appends(<<QualityIssue("address.postalCode", postal_code,
                 "Postal code must be numeric", <<>>)>>)
        ELSE IF ~(5 <= Len(cleaned_postal) /\ Len(cleaned_postal) <= 7)
        THEN Appends(<<QualityIssue("address.postalCode", postal_code,
                 "Postal code should be 5-7 digits, got {}",
                 <<IntToStr(Len(cleaned_postal))>>)>>)
        ELSE Appends(<<>>)

\* The order in which the date loop visits the four date fields.
date_field_names == <<"dateOfBirth", "dateOfInjury", "formFillingDate",
                      "formReceiptDateAtClinic">>

\* The leaf each block of _check_field_quality reads, in program order.
QualitySteps ==
    <<"idNumber", "mobilePhone", "landlinePhone",
      "dateOfBirth.day", "dateOfBirth.month", "dateOfBirth.year",
      "dateOfInjury.day", "dateOfInjury.month", "dateOfInjury.year",
      "formFillingDate.day", "formFillingDate.month", "formFillingDate.year",
      "formReceiptDateAtClinic.day", "formReceiptDateAtClinic.month",
      "formReceiptDateAtClinic.year",
      "address.postalCode">>

\* The block of step i.
RunStep(d, i) ==
    IF i = 1 THEN CheckIdNumber(d)
    ELSE IF i = 2 THEN CheckMobile(d)
    ELSE IF i = 3 THEN CheckLandline(d)
    ELSE IF i = 16 THEN CheckPostalCode(d)
    ELSE LET date_field_name == date_field_names[((i - 4) \div 3) + 1]
             sub == (i - 4) % 3
         IN  IF sub = 0 THEN CheckDay(d, date_field_name)
             ELSE IF sub = 1 THEN CheckMonth(d, date_field_name)
             ELSE CheckYear(d, date_field_name)

\* Runs the blocks in order, appending to quality_issues; an exception in
\* a block ends the function and discards the list.
RECURSIVE RunChecksFrom(_, _, _)
RunChecksFrom(d, i, quality_issues) ==
    IF i > Len(QualitySteps) THEN Appends(quality_issues)
    ELSE LET r == RunStep(d, i)
         IN  IF r.raised THEN Raises
             ELSE RunChecksFrom(d, i + 1, quality_issues \o r.issues)

_check_field_quality(validated_dict) == RunChecksFrom(validated_dict, 1, <<>>)

-----------------------------------------------------------------------------
(* ValidationService.validate                                              *)

\* validate without the "else 100.0" of the accuracy score: a record with
\* no non-empty leaf scores 0.
ValidateBody_no_default(raw_extracted_arg, validated_form) ==
    LET validated_dict == model_dump(validated_form)
        delta == _find_corrections(raw_extracted_arg, validated_dict)
        quality == _check_field_quality(validated_dict)
        corrections == delta \o quality.issues
        total_fields == _count_non_empty_fields(validated_dict)
        unchanged_fields == total_fields - Len(corrections)
        accuracy_score == IF total_fields > 0
                          THEN Pct(unchanged_fields, total_fields)
                          ELSE Float(0)
        counts == get_filled_fields_count(validated_form)
        completeness_score == get_completeness_percentage(validated_form)
        missing_fields == _get_missing_fields(validated_dict)
        auto_corrections_count ==
            Len(SelectSeq(corrections, LAMBDA c : c.auto_corrected))
        quality_issues_count ==
            Len(SelectSeq(corrections, LAMBDA c : ~c.auto_corrected))
    IN  IF quality.raised THEN Raised("ValueError")
        ELSE ValidationReport(accuracy_score, completeness_score,
                 corrections, counts[1], counts[2], missing_fields,
                 Summary(counts[1], counts[2], completeness_score,
                         unchanged_fields, total_fields, accuracy_score,
                         auto_corrections_count, quality_issues_count))

\* The body of validate, once both parameters are bound.
ValidateBody(raw_extracted_arg, validated_form) ==
    LET validated_dict == model_dump(validated_form)
        delta == _find_corrections(raw_extracted_arg, validated_dict)
        quality == _check_field_quality(validated_dict)
        corrections == delta \o quality.issues
        total_fields == _count_non_empty_fields(validated_dict)
        unchanged_fields == total_fields - Len(corrections)
        accuracy_score == IF total_fields > 0
                          THEN Pct(unchanged_fields, total_fields)
                          ELSE Float(100)
        counts == get_filled_fields_count(validated_form)
        completeness_score == get_completeness_percentage(validated_form)
        missing_fields == _get_missing_fields(validated_dict)
        auto_corrections_count ==
            Len(SelectSeq(corrections, LAMBDA c : c.auto_corrected))
        quality_issues_count ==
            Len(SelectSeq(corrections, LAMBDA c : ~c.auto_corrected))
    IN  IF quality.raised THEN Raised("ValueError")
        ELSE ValidationReport(accuracy_score, completeness_score,
                 corrections, counts[1], counts[2], missing_fields,
                 Summary(counts[1], counts[2], completeness_score,
                         unchanged_fields, total_fields, accuracy_score,
                         auto_corrections_count, quality_issues_count))

\* validate working on the caller's record in place of a dump of it, and
\* storing the cleaned ID number back into it.
ArgsAfterValidate_in_place(args) ==
    [args EXCEPT ![Len(args)] =
        [@ EXCEPT !["idNumber"] = Replace(Replace(@, " "), "-")]]

\* The arguments of a call of validate once the call is over: validate
\* reads raw_extracted, dumps validated_form into a new dict and assigns
\* into neither.
ArgsAfterValidate(args) == args

\* A call validate(*args): the two parameters raw_extracted and
\* validated_form are required; binding fails with TypeError otherwise.
validate(args) ==
    IF Len(args) # 2 THEN Raised("TypeError")
    ELSE ValidateBody(args[1], args[2])

-----------------------------------------------------------------------------
(* The extraction output the pipeline is run on                            *)

Text == <<"a", "b">>

\* The JSON template of the prompt: every key present, every leaf "".
BlankRaw == [x \in RawKeys |-> IF x \in Leaves THEN <<>> ELSE PyDict]

\* An answer of the language model in the shape the prompt asks for (the
\* template's keys, i.e. the aliases, a dict under every nested key) with
\* most fields filled in; free text is abbreviated to Text.
FilledRaw ==
    [l \in RawKeys |->
        IF l \in NestedKeys THEN PyDict
        ELSE IF l = "idNumber" THEN D(<<8, 7, 7, 5, 2, 4, 5, 6, 3>>)
        ELSE IF l = "mobilePhone" THEN D(<<0, 5, 0, 2, 4, 7, 4, 9, 4, 7>>)
        ELSE IF l \in {"landlinePhone", "address.poBox",
                       "medicalInstitutionFields.medicalDiagnoses"} THEN <<>>
        ELSE IF l = "dateOfBirth.day" THEN D(<<0, 2>>)
        ELSE IF l = "dateOfBirth.month" THEN D(<<0, 2>>)
        ELSE IF l = "dateOfBirth.year" THEN D(<<1, 9, 9, 5>>)
        ELSE IF l = "dateOfInjury.day" THEN D(<<1, 6>>)
        ELSE IF l = "dateOfInjury.month" THEN D(<<0, 4>>)
        ELSE IF l = "dateOfInjury.year" THEN D(<<2, 0, 2, 2>>)
        ELSE IF l = "formFillingDate.day" THEN D(<<2, 5>>)
        ELSE IF l = "formFillingDate.month" THEN D(<<0, 1>>)
        ELSE IF l = "formFillingDate.year" THEN D(<<2, 0, 2, 3>>)
        ELSE IF l = "formReceiptDateAtClinic.day" THEN D(<<0, 2>>)
        ELSE IF l = "formReceiptDateAtClinic.month" THEN D(<<0, 2>>)
        ELSE IF l = "formReceiptDateAtClinic.year" THEN D(<<1, 9, 9, 9>>)
        ELSE IF l = "address.houseNumber" THEN D(<<1, 6>>)
        ELSE IF l = "address.entrance" THEN D(<<1>>)
        ELSE IF l = "address.apartment" THEN D(<<1, 2>>)
        ELSE IF l = "address.postalCode" THEN D(<<3, 1, 2, 4, 2, 2>>)
        ELSE IF l = "timeOfInjury" THEN <<"1", "9", ":", "0", "0">>
        ELSE Text]

\* The OCR-failure marker of the rule catalogue, as one token; the source
\* names no such string.
OcrFailureMarker == <<"<ocr-failure-marker>">>

\* The calendar years in which the host may run validate.
CalendarYears == {2025, 2026}

\* The nested keys the extraction may leave out or leave empty: one of
\* each nested model.
ExtractedComposites == {"dateOfBirth", "address", "medicalInstitutionFields"}

\* The values the extraction may put into a leaf.
ExtractedValues(l) ==
    IF l = "idNumber"
    THEN {D(<<8, 7, 7, 5, 2, 4, 5, 6, 3>>), D(<<1, 2, 3, 4, 5, 6, 7, 8>>),
          <<"1", "2", "a">>, <<" ">> \o D(<<1, 2, 3, 4, 5, 6, 7, 8, 9>>),
          D(<<8, 7, 7, 5>>) \o <<"-">> \o D(<<2, 4, 5, 6, 3>>), <<"-">>,
          <<>>}
    ELSE IF l = "mobilePhone"
    THEN {D(<<0, 5, 0, 2, 4, 7, 4, 9, 4, 7>>),
          D(<<6, 5, 0, 2, 4, 7, 4, 9, 4, 7>>),
          <<"a", "b", "c">> \o D(<<1, 2, 3, 4, 5, 6, 7>>),
          D(<<0, 5, 0, 2, 4>>),
          D(<<0, 5, 0>>) \o <<"-">> \o D(<<2, 4, 7, 4, 9, 4, 7>>) \o <<" ">>,
          D(<<0, 3, 1, 2, 3, 4, 5, 6, 7>>), <<>>}
    ELSE IF l = "landlinePhone"
    THEN {D(<<0, 3, 1, 2, 3, 4, 5, 6, 7>>), D(<<0, 3, 1, 2, 3, 4, 5>>),
          D(<<3, 1, 2, 3, 4, 5, 6>>), D(<<0, 5, 0, 2, 4, 7, 4>>),
          <<" ", "(">> \o D(<<0, 3>>) \o <<")">> \o D(<<1, 2, 3, 4, 5, 6, 7>>)}
    ELSE IF l = "address.postalCode"
    THEN {D(<<3, 1, 2, 4, 2, 2>>), D(<<1, 2, 3>>),
          <<"1", "2", "a", "4", "5">>, D(<<3, 1>>) \o <<" ">> \o D(<<2, 4, 2>>),
          <<"1", "2", "-", "3">>, <<>>}
    ELSE IF l = "dateOfBirth.day"
    THEN {D(<<1, 5>>), D(<<3, 2>>), <<"1", "x">>, <<"sup2">>,
          <<" ", "3", "2">>, <<>>}
    ELSE IF l = "dateOfBirth.month"
    THEN {D(<<0, 1>>), D(<<1, 3>>), <<"a", "b">>, <<>>}
    ELSE IF l = "dateOfBirth.year"
    THEN {D(<<2, 0, 2, 6>>), D(<<2, 0, 2, 7>>), D(<<1, 8, 9, 9>>),
          <<"2", "0", "x">>, <<>>, PyNone}
    ELSE IF l \in {"dateOfInjury.day", "formFillingDate.day",
                   "formReceiptDateAtClinic.day"}
    THEN {<<"x">>, D(<<3, 2>>)}
    ELSE IF l \in {"dateOfInjury.month", "formFillingDate.month",
                   "formReceiptDateAtClinic.month"}
    THEN {<<"x">>, D(<<0>>)}
    ELSE IF l \in {"dateOfInjury.year", "formFillingDate.year",
                   "formReceiptDateAtClinic.year"}
    THEN {D(<<1, 9, 0, 0>>), <<"sup2", "0", "2", "4">>}
    ELSE IF l = "lastName"
    THEN {Text, <<" ", "a">>, <<" ">>, <<>>, <<"a">> \o OcrFailureMarker}
    ELSE IF l = "signature"
    THEN {Text, <<" ", "a">>, <<" ">>, <<>>}
    ELSE IF l = "address.poBox"
    THEN {Text, PyNone}
    ELSE {Text}

\* The answer with the value v under the leaf path l of the top-level
\* key k: a sub-key with a value sits in a dict.
SetLeaf(raw, k, l, v) ==
    IF IsNested(k) THEN [raw EXCEPT ![l] = v, ![k] = PyDict]
    ELSE [raw EXCEPT ![l] = v]

\* The answer with no key k (shape PyNone) or with {} under k (shape
\* PyDict): no sub-key of k has a value.
SetComposite(raw, k, shape) ==
    [x \in RawKeys |->
        IF x = k THEN shape
        ELSE IF x \in NestedLeaves(k) THEN PyNone
        ELSE raw[x]]

-----------------------------------------------------------------------------
(* FormProcessor.process_document (main.py)                                *)

\* The files _save_outputs writes, in the order it writes them.
OutputFiles == <<"ocr_text", "extracted_json", "validation_reports">>

\* No value: None in place of a record or a report.
NoForm == [some |-> FALSE, value |-> Form283Data(BlankRaw)]
SomeForm(form) == [some |-> TRUE, value |-> form]
NoReportYet == [some |-> FALSE, value |-> NoReport]
SomeReport(validation_report) == [some |-> TRUE, value |-> validation_report]

\* What a call of process_document did: the steps it started, in order,
\* how it ended, the triple it returned and the output files it wrote.
Call(file_exists, save_output, calls, kind, error, form, validation_report, written) ==
    [file_exists |-> file_exists, save_output |-> save_output, calls |-> calls, kind |-> kind, error |-> error, form_data |-> form, validation_report |-> validation_report, written |-> written]

\* A call of process_document together with what its surroundings did:
\* whether the OCR service answered, what kind of answer the language
\* model gave, whether writing the output files would raise.
Attempt(call, ocr_ok, answer_kind, save_raised) ==
    [file_exists |-> call.file_exists, save_output |-> call.save_output, calls |-> call.calls, kind |-> call.kind, error |-> call.error, form_data |-> call.form_data, validation_report |-> call.validation_report, written |-> call.written, ocr_ok |-> ocr_ok, answer_kind |-> answer_kind, save_raised |-> save_raised]

ProcNotCalled ==
    Attempt(Call(TRUE, TRUE, <<>>, "none", "", NoForm, NoReportYet, {}),
            TRUE, "json", FALSE)

\* What the OCR service, the language model and the disk may do to a call:
\* analyze_document answers or raises; extract_fields raises (API error,
\* answer that is not JSON) or returns a dict, which has the shape of the
\* schema or not (a composite given as a scalar); _save_outputs writes its
\* three files or fails after the first k of them.
Answers(docs) ==
    [kind : {"api_error", "bad_json", "bad_shape"}, raw : {BlankRaw}]
        \cup [kind : {"json"}, raw : docs]

\* How _save_outputs may end: it raises with the first `files` output
\* files on disk (mkdir or an open raised: the files before it; a write
\* raised: the file being written is there, cut short), or it returns
\* with all of them.
SaveOutcomes ==
    {o \in [files : 0..Len(OutputFiles), raised : BOOLEAN] :
        ~o.raised => o.files = Len(OutputFiles)}

\* _save_outputs: the three files in order, the first k of them on disk.
_save_outputs(k) == {OutputFiles[i] : i \in 1..k}

\* The end of extract_and_validate once the record is built: what
\* validation_service.validate(form_data) did decides the outcome; the
\* pair (form_data, validation_report) is returned if it returned.
extract_and_validate_quality(form, r) ==
    [calls |-> <<"extract_fields", "schema", "quality">>,
     kind |-> r.kind, error |-> r.error,
     form_data |-> IF r.kind = "raised" THEN NoForm ELSE SomeForm(form),
     validation_report |-> IF r.kind = "raised" THEN NoReportYet
                           ELSE SomeReport(r.report)]

\* extract_and_validate(ocr_text): extract_fields, Form283Data(**raw),
\* validation_service.validate(form_data); an exception of a step leaves
\* the function. The steps started, how it ended, and the pair it returns.
extract_and_validate(answer) ==
    IF answer.kind \in {"api_error", "bad_json"}
    THEN [calls |-> <<"extract_fields">>, kind |-> "raised",
          error |-> IF answer.kind = "bad_json" THEN "ValueError"
                    ELSE "Exception",
          form_data |-> NoForm, validation_report |-> NoReportYet]
    ELSE IF answer.kind = "bad_shape"
    THEN [calls |-> <<"extract_fields", "schema">>, kind |-> "raised",
          error |-> "ValidationError",
          form_data |-> NoForm, validation_report |-> NoReportYet]
    ELSE extract_and_validate_quality(Form283Data(answer.raw),
                                      validate(<<Form283Data(answer.raw)>>))

\* The try block of process_document once the OCR text is there and
\* extract_and_validate has ended as r: _save_outputs if save_output,
\* return; every exception is logged and re-raised.
process_document_after_ocr(file_exists, save_output, saved, r) ==
    IF r.kind = "raised"
    THEN Call(file_exists, save_output, <<"ocr">> \o r.calls, "raised",
              r.error, NoForm, NoReportYet, {})
    ELSE IF ~save_output
    THEN Call(file_exists, save_output, <<"ocr">> \o r.calls, "returned", "",
              r.form_data, r.validation_report, {})
    ELSE IF saved.raised
    THEN Call(file_exists, save_output, <<"ocr">> \o r.calls \o <<"save">>,
              "raised", "OSError", NoForm, NoReportYet,
              _save_outputs(saved.files))
    ELSE Call(file_exists, save_output, <<"ocr">> \o r.calls \o <<"save">>,
              "returned", "", r.form_data, r.validation_report,
              _save_outputs(saved.files))

\* The try block of process_document: OCR, then extract_and_validate and
\* what follows it; an exception of the OCR step is logged and re-raised.
process_document_try(file_exists, save_output, ocr_ok, answer, saved) ==
    IF ~ocr_ok
    THEN Call(file_exists, save_output, <<"ocr">>, "raised", "Exception",
              NoForm, NoReportYet, {})
    ELSE process_document_after_ocr(file_exists, save_output, saved,
                                    extract_and_validate(answer))

\* process_document looking for the input file only once the try block
\* has run.
process_document_late_check(file_exists, save_output, ocr_ok, answer, saved) ==
    LET r == process_document_try(file_exists, save_output, ocr_ok, answer,
                                  saved)
    IN  IF ~file_exists
        THEN Call(file_exists, save_output, r.calls, "raised",
                  "FileNotFoundError", NoForm, NoReportYet, r.written)
        ELSE r

\* process_document(file_path, save_output): raises FileNotFoundError if
\* the input file does not exist, and runs the try block otherwise.
process_document(file_exists, save_output, ocr_ok, answer, saved) ==
    IF ~file_exists
    THEN Call(file_exists, save_output, <<>>, "raised", "FileNotFoundError",
              NoForm, NoReportYet, {})
    ELSE process_document_try(file_exists, save_output, ocr_ok, answer,
                              saved)

-----------------------------------------------------------------------------
(* The Streamlit UI (streamlit_app.py)                                     *)

\* st.session_state after initialize_session_state on a fresh session, and
\* the rest of what the UI leaves behind: the files in data/temp and what
\* the last run of main() did.
Session(processed, form, validation_report, metadata) ==
    [processed |-> processed, form_data |-> form, validation_report |-> validation_report, metadata |-> metadata]

initialize_session_state == Session(FALSE, NoForm, NoReportYet, FALSE)

\* hasattr(obj, name) for a pydantic model held as a record of its fields.
HasAttr(obj, name) == name \in DOMAIN obj

\* render_quality_issues: for every entry of corrections the expander
\* reads issue.field, issue.value and issue.reason; reading an attribute
\* the model does not declare raises AttributeError.
render_quality_issues(validation_report) ==
    IF \E i \in DOMAIN validation_report.corrections :
          \E a \in {"field", "value", "reason"} :
              ~HasAttr(validation_report.corrections[i], a)
    THEN "AttributeError"
    ELSE "rendered"

\* The end of main(): the results are rendered if session_state.processed;
\* an exception of a renderer is not caught.
display(session) ==
    IF ~session.processed THEN "upload form"
    ELSE IF render_quality_issues(session.validation_report.value)
              = "AttributeError"
    THEN "AttributeError"
    ELSE "results"

\* What the script of the session has left behind so far: the session
\* state, the files in data/temp, the upload it handles, where the run is
\* or how it ended (last), whether save_uploaded_file returned, whether
\* the try block got to FormProcessor(), whether process_document
\* returned in this run, whether everything around the run did its part
\* (served: the services answered with a document of the schema's shape,
\* the output files and the unlink went through), and what the page shows. A run
\* with the button pressed waits in analyze_document (last = "ocr") and
\* then in extract_fields (last = "llm") for a network answer.
Ui(session, temp_files, upload, last, wrote_temp, started) ==
    [session |-> session, temp_files |-> temp_files, upload |-> upload, last |-> last, wrote_temp |-> wrote_temp, started |-> started, returned |-> FALSE, served |-> FALSE, shown |-> IF last = "rejected" THEN "size error" ELSE IF last \in {"ocr", "llm"} THEN "spinner" ELSE display(session)]

NewUi == Ui(initialize_session_state, {}, "", "none", FALSE, FALSE)

\* The script of the session is not in the middle of a run.
RunEnded(u) == u.last \notin {"ocr", "llm"}

\* save_uploaded_file: data/temp/<uploaded name>, overwritten if there.
save_uploaded_file(temp_files, name) == temp_files \cup {name}

\* main() writing the temporary copy before it looks at the file size.
main_too_large_saved_first(u, name) ==
    Ui(u.session, save_uploaded_file(u.temp_files, name), name, "rejected",
       TRUE, FALSE)

\* main() with an upload of more than 10 MB: st.error and return, before
\* the button is looked at and before the results are displayed.
main_too_large(u, name) ==
    Ui(u.session, u.temp_files, name, "rejected", FALSE, FALSE)

\* main() with an upload of at most 10 MB and the button pressed, up to
\* the first network call: save_uploaded_file (mkdir or open raises and no
\* file is there: "no_file"; the write raises and leaves the file it
\* opened: "partial"; or the copy is written), FormProcessor(), the
\* existence test of process_document on the copy, then the wait in
\* analyze_document. An exception goes to the except branch.
main_button_pressed(u, name, disk, init_ok) ==
    IF disk = "no_file"
    THEN Ui(u.session, u.temp_files, name, "failed", FALSE, FALSE)
    ELSE IF disk = "partial"
    THEN Ui(u.session, save_uploaded_file(u.temp_files, name), name,
            "failed", FALSE, FALSE)
    ELSE IF ~init_ok
    THEN Ui(u.session, save_uploaded_file(u.temp_files, name), name,
            "failed", TRUE, TRUE)
    ELSE Ui(u.session, save_uploaded_file(u.temp_files, name), name,
            "ocr", TRUE, TRUE)

\* analyze_document returned the text: the run goes on to extract_fields
\* and waits for the chat completion.
main_ocr_returned(u) ==
    Ui(u.session, u.temp_files, u.upload, "llm", TRUE, TRUE)

\* How temp_file_path.unlink() may end: the copy is removed; the copy is
\* no longer there (FileNotFoundError); the copy cannot be removed and
\* stays.
UnlinkOutcomes == {"removed", "gone", "denied"}

\* The try block after process_document returned: the four session_state
\* assignments, then temp_file_path.unlink(), then st.success; an
\* exception of unlink goes to the except branch with the session state
\* already assigned.
main_store_results(u, call, unlink) ==
    [Ui(Session(TRUE, call.form_data, call.validation_report, TRUE),
        IF unlink = "denied" THEN u.temp_files
        ELSE u.temp_files \ {u.upload},
        u.upload, IF unlink = "removed" THEN "succeeded" ELSE "failed",
        TRUE, TRUE)
     EXCEPT !.returned = TRUE]

\* The rest of the try block once process_document on the temporary copy
\* is over: if it raised, the except branch, which shows the error; if it
\* returned, the assignments and the unlink.
main_after_process(u, call, unlink) ==
    IF call.kind = "raised"
    THEN Ui(u.session, u.temp_files, u.upload, "failed", TRUE, TRUE)
    ELSE main_store_results(u, call, unlink)

\* main() with no button pressed: nothing is processed.
main_idle(u, name) == Ui(u.session, u.temp_files, name, "idle", FALSE, FALSE)

-----------------------------------------------------------------------------
(* The pipeline                                                            *)

Init ==
    /\ raw_extracted \in {BlankRaw, FilledRaw}
    /\ edits = 0
    /\ form_data = Form283Data(BlankRaw)
    /\ pc = "extract"
    /\ validate_result = NotCalled
    /\ eav_result = NotCalled
    /\ calendar_year = 2025
    /\ history = <<>>
    /\ proc = ProcNotCalled
    /\ ui = NewUi

\* The model's JSON answer, one leaf at a time (extract_fields parses
\* whatever the model returned).
ExtractLeaf ==
    /\ pc = "extract"
    /\ edits < MaxEdits
    /\ \E k \in Range(TopKeys) :
          \E l \in (IF IsNested(k) THEN NestedLeaves(k) ELSE {k}) :
             \E v \in ExtractedValues(l) :
                raw_extracted' = SetLeaf(raw_extracted, k, l, v)
    /\ edits' = edits + 1
    /\ UNCHANGED <<form_data, pc, validate_result, eav_result, calendar_year>>
    /\ UNCHANGED appVars

\* The model's JSON answer leaves a nested key out, or gives an empty
\* dict under it.
ExtractComposite ==
    /\ pc = "extract"
    /\ edits < MaxEdits
    /\ \E k \in ExtractedComposites : \E shape \in {PyNone, PyDict} :
          raw_extracted' = SetComposite(raw_extracted, k, shape)
    /\ edits' = edits + 1
    /\ UNCHANGED <<form_data, pc, validate_result, eav_result, calendar_year>>
    /\ UNCHANGED appVars

\* extract_fields raises: the API call fails or the answer is not JSON.
ExtractFieldsFails ==
    /\ pc = "extract"
    /\ \E e \in {"ValueError", "Exception"} : eav_result' = Raised(e)
    /\ pc' = "extract_failed"
    /\ UNCHANGED <<raw_extracted, edits, form_data, validate_result,
                   calendar_year>>
    /\ UNCHANGED appVars

\* extract_and_validate, step 2: form_data = Form283Data(**raw_extracted).
SchemaValidate ==
    /\ pc = "extract"
    /\ form_data' = Form283Data(raw_extracted)
    /\ pc' = "validated"
    /\ UNCHANGED <<raw_extracted, edits, validate_result, eav_result,
                   calendar_year>>
    /\ UNCHANGED appVars

\* extract_and_validate, step 3 and return:
\* validation_report = validation_service.validate(form_data).
QualityValidate ==
    /\ pc = "validated"
    /\ eav_result' = validate(<<form_data>>)
    /\ form_data' = ArgsAfterValidate(<<form_data>>)[1]
    /\ pc' = "eav_done"
    /\ UNCHANGED <<raw_extracted, edits, validate_result, calendar_year>>
    /\ UNCHANGED appVars

\* A call of ValidationService.validate with both of its parameters, in
\* some calendar year of the host; validate does not read the clock.
Validate ==
    /\ pc = "validated"
    /\ calendar_year' \in CalendarYears
    /\ validate_result' = validate(<<raw_extracted, form_data>>)
    /\ raw_extracted' = ArgsAfterValidate(<<raw_extracted, form_data>>)[1]
    /\ form_data' = ArgsAfterValidate(<<raw_extracted, form_data>>)[2]
    /\ pc' = "validate_done"
    /\ UNCHANGED <<edits, eav_result>>
    /\ UNCHANGED appVars

Next ==
    \/ ExtractLeaf
    \/ ExtractComposite
    \/ ExtractFieldsFails
    \/ SchemaValidate
    \/ QualityValidate
    \/ Validate

Spec == Init /\ [][Next]_vars

-----------------------------------------------------------------------------
(* The application: library calls, command-line runs, UI runs              *)

\* How many calls of validate one process makes.
MaxCalls == 3

\* The documents the application is run on.
Docs ==
    {BlankRaw, FilledRaw,
     [BlankRaw EXCEPT !["idNumber"] = D(<<1, 2, 3, 4, 5, 6, 7, 8>>)],
     [BlankRaw EXCEPT !["lastName"] = <<" ", "a">>],
     [FilledRaw EXCEPT !["dateOfBirth.year"] = D(<<2, 0, 2, 7>>)],
     [FilledRaw EXCEPT !["dateOfBirth.day"] = <<"sup2">>]}

UploadNames == {"a.pdf", "b.pdf"}

\* One completed call of validate: its arguments, the calendar year in
\* which it ran, what it returned or raised.
ValidateCall(raw, form, year, result) ==
    [raw |-> raw, form |-> form, year |-> year, result |-> result]

AppInit ==
    /\ raw_extracted = BlankRaw
    /\ edits = 0
    /\ form_data = Form283Data(BlankRaw)
    /\ pc \in {"library", "cli", "ui"}
    /\ validate_result = NotCalled
    /\ eav_result = NotCalled
    /\ calendar_year = 2025
    /\ history = <<>>
    /\ proc = ProcNotCalled
    /\ ui = NewUi

\* The host's calendar moves on to the next year.
NewYear ==
    /\ pc = "library"
    /\ calendar_year + 1 \in CalendarYears
    /\ calendar_year' = calendar_year + 1
    /\ UNCHANGED <<raw_extracted, edits, form_data, pc, validate_result,
                   eav_result, history, proc, ui>>

\* validation_service.validate(raw_extracted, validated_form) on the
\* record built from a document.
CallValidate ==
    /\ pc = "library"
    /\ Len(history) < MaxCalls
    /\ \E doc \in Docs :
          LET form == Form283Data(doc)
              result == validate(<<doc, form>>)
              after == ArgsAfterValidate(<<doc, form>>)
          IN  /\ validate_result' = result
              /\ raw_extracted' = after[1]
              /\ form_data' = after[2]
              /\ history' = Append(history,
                      ValidateCall(doc, form, calendar_year, result))
    /\ UNCHANGED <<edits, pc, eav_result, calendar_year, proc, ui>>

\* processor.process_document(file_path, save_output) from a script.
ProcessDocument ==
    /\ pc = "cli"
    /\ \E file_exists \in BOOLEAN, save_output \in BOOLEAN,
          ocr_ok \in BOOLEAN, answer \in Answers(Docs),
          saved \in SaveOutcomes :
          proc' = Attempt(process_document(file_exists, save_output, ocr_ok,
                                           answer, saved),
                          ocr_ok, answer.kind, saved.raised)
    /\ UNCHANGED <<raw_extracted, edits, form_data, pc, validate_result,
                   eav_result, calendar_year, history, ui>>

\* A run of main() with an upload of more than 10 MB.
UploadTooLarge ==
    /\ pc = "ui"
    /\ RunEnded(ui)
    /\ \E name \in UploadNames : ui' = main_too_large(ui, name)
    /\ UNCHANGED <<raw_extracted, edits, form_data, pc, validate_result,
                   eav_result, calendar_year, history, proc>>

\* A run of main() with an upload and no button pressed.
UploadShown ==
    /\ pc = "ui"
    /\ RunEnded(ui)
    /\ \E name \in UploadNames : ui' = main_idle(ui, name)
    /\ UNCHANGED <<raw_extracted, edits, form_data, pc, validate_result,
                   eav_result, calendar_year, history, proc>>

\* A run of main() with "Process Document" pressed, up to its first wait.
ProcessButton ==
    /\ pc = "ui"
    /\ RunEnded(ui)
    /\ \E name \in UploadNames, disk \in {"written", "no_file", "partial"},
          init_ok \in BOOLEAN :
          ui' = main_button_pressed(ui, name, disk, init_ok)
    /\ UNCHANGED <<raw_extracted, edits, form_data, pc, validate_result,
                   eav_result, calendar_year, history, proc>>

\* The OCR service answers the waiting run: analyze_document returns the
\* text or raises, and process_document re-raises.
OcrAnswers ==
    /\ pc = "ui"
    /\ ui.last = "ocr"
    /\ \E ocr_ok \in BOOLEAN :
          ui' = IF ocr_ok THEN main_ocr_returned(ui)
                ELSE main_after_process(ui,
                        process_document(TRUE, TRUE, FALSE,
                            [kind |-> "api_error", raw |-> BlankRaw],
                            [files |-> 0, raised |-> TRUE]),
                        "removed")
    /\ UNCHANGED <<raw_extracted, edits, form_data, pc, validate_result,
                   eav_result, calendar_year, history, proc>>

\* The language model answers the waiting run: the rest of
\* process_document and of the try block of main().
LlmAnswers ==
    /\ pc = "ui"
    /\ ui.last = "llm"
    /\ \E answer \in Answers(Docs), saved \in SaveOutcomes,
          unlink \in UnlinkOutcomes :
          ui' = [main_after_process(ui,
                      process_document(TRUE, TRUE, TRUE, answer, saved),
                      unlink)
                 EXCEPT !.served = /\ answer.kind = "json"
                                   /\ ~saved.raised
                                   /\ unlink = "removed"]
    /\ UNCHANGED <<raw_extracted, edits, form_data, pc, validate_result,
                   eav_result, calendar_year, history, proc>>

AppNext ==
    \/ NewYear
    \/ CallValidate
    \/ ProcessDocument
    \/ UploadTooLarge
    \/ UploadShown
    \/ ProcessButton
    \/ OcrAnswers
    \/ LlmAnswers

AppSpec == AppInit /\ [][AppNext]_vars

-----------------------------------------------------------------------------
(* Properties                                                              *)

\* validate(raw_extracted, form_data) returned a report.
ValidateReturned == pc = "validate_done" /\ validate_result.kind = "returned"

report == validate_result.report

NonEmptyLeaves(form) == {l \in Leaves : form[l] # <<>>}

\* No block of the rule set has anything to report on the record.
NoRuleTriggered(form) ==
    \A i \in DOMAIN QualitySteps : RunStep(form, i) = Appends(<<>>)

\* C1: for every record whose leaves are strings, and whatever
\* raw_extracted is, validate returns a report and never raises.
C1_ValidateNeverRaises ==
    pc = "validate_done" => validate_result.kind = "returned"

\* C2: the accuracy score of a returned report lies in 0..100, and is
\* 100.0 whenever no field is filled or no filled field triggers a rule.
C2_AccuracyBound ==
    ValidateReturned =>
        /\ ScoreLE(Float(0), report.accuracy_score)
        /\ ScoreLE(report.accuracy_score, Float(100))
        /\ (report.filled_count = 0 \/ NoRuleTriggered(form_data))
              => ScoreEq(report.accuracy_score, Float(100))

\* (filled - issue_count) / filled * 100 when filled > 0, else 100.0.
AccuracyOf(filled, issue_count) ==
    IF filled > 0 THEN Pct(filled - issue_count, filled) ELSE Float(100)

\* C3 as stated: the accuracy score is computed from the report's
\* filled_count (logical units) and the length of the issue list.
C3_AccuracyFromFilledCount ==
    ValidateReturned =>
        ScoreEq(report.accuracy_score,
                AccuracyOf(report.filled_count, Len(report.corrections)))

\* C3 as amended: the accuracy score is computed from the number of
\* non-empty leaf fields of the record and the length of the issue list.
C3_AccuracyFromNonEmptyLeaves ==
    ValidateReturned =>
        ScoreEq(report.accuracy_score,
                AccuracyOf(Cardinality(NonEmptyLeaves(form_data)),
                           Len(report.corrections)))

\* A report with an issue, on a record with more non-empty leaves than
\* filled logical units.
C3_Witness ==
    /\ ValidateReturned
    /\ Len(report.corrections) > 0
    /\ Cardinality(NonEmptyLeaves(form_data)) > report.filled_count
    /\ ~ScoreEq(report.accuracy_score, Float(0))

\* C4: when extract_fields succeeded and the data passed the schema,
\* extract_and_validate returns its triple.
C4_ExtractAndValidateReturns ==
    pc = "eav_done" => eav_result.kind = "returned"

SomeFilled(form, leaves) == \E l \in leaves : form[l] # <<>>

\* The number of filled logical units: non-empty scalars, dates and the
\* address with at least one non-empty component, non-empty medical fields.
FilledUnits(form) ==
    Cardinality({f \in Range(simple_fields) : form[f] # <<>>})
    + Cardinality({k \in DateKeys : SomeFilled(form, NestedLeaves(k))})
    + (IF SomeFilled(form, NestedLeaves("address")) THEN 1 ELSE 0)
    + Cardinality({f \in Range(medical_fields) : form[f] # <<>>})

PartlyFilled(form, k) ==
    /\ SomeFilled(form, NestedLeaves(k))
    /\ \E l \in NestedLeaves(k) : form[l] = <<>>

\* C5: get_filled_fields_count returns (filled, 21), filled being the
\* number of filled logical units, a date or address counting once.
C5_FilledFieldsCount ==
    /\ pc # "extract" =>
          get_filled_fields_count(form_data) = <<FilledUnits(form_data), 21>>
    /\ ValidateReturned =>
          /\ report.filled_count = FilledUnits(form_data)
          /\ report.total_count = 21

\* A report on a record with a partly filled date and a partly filled
\* address.
C5_Witness ==
    /\ ValidateReturned
    /\ \E k \in DateKeys : PartlyFilled(form_data, k)
    /\ PartlyFilled(form_data, "address")
    /\ report.filled_count = 2

AllUnitsFilled(form) ==
    /\ \A f \in Range(simple_fields) \cup Range(medical_fields) :
          form[f] # <<>>
    /\ \A k \in DateKeys \cup {"address"} : SomeFilled(form, NestedLeaves(k))

CompletenessBound(score, filled, total, form) ==
    /\ ScoreLE(Float(0), score)
    /\ ScoreLE(score, Float(100))
    /\ filled <= total
    /\ ScoreEq(score, Float(100)) <=> AllUnitsFilled(form)

\* C6: the completeness score lies in 0..100, filled_count <= total_count,
\* and the score is 100.0 exactly when all 21 logical units are filled.
C6_CompletenessBound ==
    /\ pc # "extract" =>
          CompletenessBound(get_completeness_percentage(form_data),
                            get_filled_fields_count(form_data)[1],
                            get_filled_fields_count(form_data)[2], form_data)
    /\ ValidateReturned =>
          CompletenessBound(report.completeness_score, report.filled_count,
                            report.total_count, form_data)

\* A report on a record with all 21 units filled.
C6_Witness ==
    /\ ValidateReturned
    /\ AllUnitsFilled(form_data)
    /\ ScoreEq(report.completeness_score, Float(100))
    /\ report.filled_count = 21

\* C7: every entry of the issue list refers to a non-empty leaf of the
\* record, so no path is both missing and in the issue list.
C7_NoIssueOnEmptyField ==
    ValidateReturned =>
        \A i \in DOMAIN report.corrections :
            /\ form_data[report.corrections[i].field] # <<>>
            /\ report.corrections[i].field \notin Range(report.missing_fields)

\* C8: the issue list holds at most one entry for any field path.
C8_OneIssuePerField ==
    ValidateReturned =>
        \A i, j \in DOMAIN report.corrections :
            i # j => report.corrections[i].field # report.corrections[j].field

\* The quality issues the outcome of validate reports for a field.
ReportedFor(field) ==
    SelectSeq(validate_result.report.corrections,
              LAMBDA c : c.field = field /\ ~c.auto_corrected)

\* C9: the issue reported for a checked field is the one the field's own
\* rule gives for the field's value, whatever the other fields hold; no
\* other field's outcome suppresses it.
C9_FieldChecksIndependent ==
    pc = "validate_done" =>
        \A i \in DOMAIN QualitySteps :
            ~RunStep(form_data, i).raised =>
                ReportedFor(QualitySteps[i]) = RunStep(form_data, i).issues

\* The rule catalogue's order of the checked fields.
CatalogueOrder ==
    <<"idNumber", "lastName", "mobilePhone", "landlinePhone",
      "dateOfBirth.day", "dateOfBirth.month", "dateOfBirth.year",
      "dateOfInjury.day", "dateOfInjury.month", "dateOfInjury.year",
      "formFillingDate.day", "formFillingDate.month", "formFillingDate.year",
      "formReceiptDateAtClinic.day", "formReceiptDateAtClinic.month",
      "formReceiptDateAtClinic.year",
      "address.postalCode">>

InCatalogue(field) == field \in Range(CatalogueOrder)

CatalogueRank(field) ==
    CHOOSE n \in DOMAIN CatalogueOrder : CatalogueOrder[n] = field

\* C10: any two entries of the issue list are in catalogue order.
C10_IssuesInCatalogueOrder ==
    ValidateReturned =>
        \A i, j \in DOMAIN report.corrections :
            (/\ i < j
             /\ InCatalogue(report.corrections[i].field)
             /\ InCatalogue(report.corrections[j].field))
            => CatalogueRank(report.corrections[i].field)
                  <= CatalogueRank(report.corrections[j].field)

-----------------------------------------------------------------------------
(* The rule catalogue, field by field                                      *)

\* What the catalogue expects of a rule on a value: no issue, or one issue
\* with the given reason.
NoIssue == [n |-> 0, text |-> "", args |-> <<>>]
OneIssue(text, args) == [n |-> 1, text |-> text, args |-> args]

WithoutChars(s, cs) == SelectSeq(s, LAMBDA ch : ch \notin cs)

AllDigitString(s) == s # <<>> /\ \A i \in DOMAIN s : s[i] \in DigitChars

Yields(issues, field, expected) ==
    IF expected.n = 0 THEN issues = <<>>
    ELSE /\ Len(issues) = 1
         /\ issues[1].field = field
         /\ issues[1].reason = Reason(expected.text, expected.args)
         /\ issues[1].issue_type = "quality"

\* The block of a field completes and yields what the catalogue expects;
\* so do the quality issues of a returned report for that field.
RuleHolds(block, field, expected) ==
    /\ pc # "extract" => ~block.raised /\ Yields(block.issues, field, expected)
    /\ ValidateReturned => Yields(ReportedFor(field), field, expected)

IdExpected(v) ==
    LET c == WithoutChars(v, {" ", "-"})
    IN  IF v = <<>> THEN NoIssue
        ELSE IF ~AllDigitString(c)
        THEN OneIssue("ID number contains non-numeric characters", <<>>)
        ELSE IF Len(c) # 9
        THEN OneIssue("ID number should be 9 digits, got {}",
                      <<IntToStr(Len(c))>>)
        ELSE NoIssue

\* C11: the national ID rule: a non-empty ID, spaces and hyphens removed,
\* yields one non-numeric issue when it is not all digits, one issue
\* "should be 9 digits, got N" when it has N # 9 digits, none when it has 9.
C11_NationalIdRule ==
    RuleHolds(CheckIdNumber(form_data), "idNumber",
              IdExpected(form_data["idNumber"]))

\* A report with the issue "should be 9 digits, got 8" for an 8-digit ID.
C11_Witness ==
    /\ ValidateReturned
    /\ form_data["idNumber"] = D(<<1, 2, 3, 4, 5, 6, 7, 8>>)
    /\ Len(ReportedFor("idNumber")) = 1
    /\ ReportedFor("idNumber")[1].reason.args = <<<<"8">>>>

MobileExpected(v) ==
    LET c == WithoutChars(v, {" ", "-", "(", ")"})
    IN  IF v = <<>> THEN NoIssue
        ELSE IF ~AllDigitString(c)
        THEN OneIssue("Phone number contains non-numeric characters", <<>>)
        ELSE IF c[1] # "0"
        THEN OneIssue("Israeli phone numbers should start with 0", <<>>)
        ELSE IF Len(c) >= 2 /\ c[2] = "5" /\ Len(c) # 10
        THEN OneIssue("Mobile phone should be 10 digits, got {}",
                      <<IntToStr(Len(c))>>)
        ELSE NoIssue

\* C12: the mobile phone rule: separators removed, one non-numeric issue,
\* else one "should start with 0" issue, else one "should be 10 digits,
\* got N" issue for a number starting with 05 of length N # 10, else none.
C12_MobilePhoneRule ==
    RuleHolds(CheckMobile(form_data), "mobilePhone",
              MobileExpected(form_data["mobilePhone"]))

\* A report whose only mobile issue is "should start with 0".
C12_Witness ==
    /\ ValidateReturned
    /\ form_data["mobilePhone"] = D(<<6, 5, 0, 2, 4, 7, 4, 9, 4, 7>>)
    /\ Len(ReportedFor("mobilePhone")) = 1
    /\ ReportedFor("mobilePhone")[1].reason.text
          = "Israeli phone numbers should start with 0"

LandlineExpected(v) ==
    LET c == WithoutChars(v, {" ", "-", "(", ")"})
    IN  IF v = <<>> THEN NoIssue
        ELSE IF ~AllDigitString(c)
        THEN OneIssue("Phone number contains non-numeric characters", <<>>)
        ELSE IF c[1] # "0"
        THEN OneIssue("Israeli phone numbers should start with 0", <<>>)
        ELSE IF ~(Len(c) >= 2 /\ c[2] = "5") /\ Len(c) # 9
        THEN OneIssue("Landline phone should be 9 digits, got {}",
                      <<IntToStr(Len(c))>>)
        ELSE NoIssue

\* C13: the landline rule: separators removed, one non-numeric issue, else
\* one "should start with 0" issue, else one "should be 9 digits, got N"
\* issue for a number starting with 0 but not 05 of length N # 9, else none.
C13_LandlinePhoneRule ==
    RuleHolds(CheckLandline(form_data), "landlinePhone",
              LandlineExpected(form_data["landlinePhone"]))

\* A report with the issue "should be 9 digits, got 7" for a landline.
C13_Witness ==
    /\ ValidateReturned
    /\ form_data["landlinePhone"] = D(<<0, 3, 1, 2, 3, 4, 5>>)
    /\ Len(ReportedFor("landlinePhone")) = 1
    /\ ReportedFor("landlinePhone")[1].reason.args = <<<<"7">>>>

DayMonthExpected(v, numeric_text, range_text, lo, hi) ==
    IF v = <<>> THEN NoIssue
    ELSE IF ~AllDigitString(v) THEN OneIssue(numeric_text, <<>>)
    ELSE IF IntOf(v) < lo \/ IntOf(v) > hi THEN OneIssue(range_text, <<v>>)
    ELSE NoIssue

\* C14: the date rule: for each of the four date fields, the day and the
\* month each on their own: empty yields no issue, non-empty non-numeric
\* yields one "must be numeric" issue at <date-field>.<sub-field>, a
\* numeric day outside 1..31 or month outside 1..12 yields one range
\* issue naming the value, a value in range yields none.
C14_DateDayMonthRule ==
    \A i \in DOMAIN date_field_names :
        LET f == date_field_names[i]
        IN  /\ RuleHolds(CheckDay(form_data, f), Path(f, "day"),
                   DayMonthExpected(form_data[Path(f, "day")],
                       "Day must be numeric", "Day must be 1-31, got {}",
                       1, 31))
            /\ RuleHolds(CheckMonth(form_data, f), Path(f, "month"),
                   DayMonthExpected(form_data[Path(f, "month")],
                       "Month must be numeric", "Month must be 1-12, got {}",
                       1, 12))

YearExpected(v, Y) ==
    IF 1900 <= IntOf(v) /\ IntOf(v) <= Y + 1 THEN NoIssue
    ELSE OneIssue("Year should be 1900-{}, got {}", <<IntToStr(Y + 1), v>>)

\* C15: the year rule: in a returned report, a numeric year of any of the
\* four date fields has no issue iff 1900 <= year <= Y + 1, Y being the
\* calendar year in which validate ran, and otherwise exactly one issue
\* "should be 1900-(Y+1), got N".
C15_YearRuleFollowsCalendar ==
    ValidateReturned =>
        \A i \in DOMAIN date_field_names :
            LET field == Path(date_field_names[i], "year")
            IN  AllDigitString(form_data[field]) =>
                    Yields(ReportedFor(field), field,
                           YearExpected(form_data[field], calendar_year))

PostalExpected(v) ==
    LET c == WithoutChars(v, {" ", "-"})
    IN  IF v = <<>> THEN NoIssue
        ELSE IF ~AllDigitString(c)
        THEN OneIssue("Postal code must be numeric", <<>>)
        ELSE IF Len(c) < 5 \/ Len(c) > 7
        THEN OneIssue("Postal code should be 5-7 digits, got {}",
                      <<IntToStr(Len(c))>>)
        ELSE NoIssue

\* C16: the postal code rule: spaces and hyphens removed, a non-empty
\* postal code that is not all digits yields one "must be numeric" issue
\* at address.postalCode, else a length N outside 5..7 yields one issue
\* "should be 5-7 digits, got N", else none.
C16_PostalCodeRule ==
    RuleHolds(CheckPostalCode(form_data), "address.postalCode",
              PostalExpected(form_data["address.postalCode"]))

\* A report with the issue "should be 5-7 digits, got 3" for "123".
C16_Witness ==
    /\ ValidateReturned
    /\ form_data["address.postalCode"] = D(<<1, 2, 3>>)
    /\ Len(ReportedFor("address.postalCode")) = 1
    /\ ReportedFor("address.postalCode")[1].reason.args = <<<<"3">>>>

Contains(s, sub) ==
    \E i \in 1..(Len(s) - Len(sub) + 1) : SubSeq(s, i, i + Len(sub) - 1) = sub

\* C17: the last-name rule: in a returned report, a last name containing
\* the OCR-failure marker has exactly one issue on lastName, a last name
\* without the marker has none.
C17_LastNameMarkerRule ==
    ValidateReturned =>
        Len(ReportedFor("lastName")) =
            IF Contains(form_data["lastName"], OcrFailureMarker) THEN 1 ELSE 0

-----------------------------------------------------------------------------
(* Missing fields and the values the issues carry                          *)

\* validate has run on the fully empty record.
EmptyRecordValidated ==
    pc = "validate_done" /\ form_data = Form283Data(BlankRaw)

\* C18 as stated: for the fully empty record validate returns completeness
\* 0.0, accuracy 100.0, an empty issue list, filled_count 0, total_count 21
\* and a missing_fields list of length 21.
C18_EmptyRecordReport ==
    EmptyRecordValidated =>
        /\ ValidateReturned
        /\ ScoreEq(report.completeness_score, Float(0))
        /\ ScoreEq(report.accuracy_score, Float(100))
        /\ report.corrections = <<>>
        /\ report.filled_count = 0
        /\ report.total_count = 21
        /\ Len(report.missing_fields) = 21

\* C18: for the fully empty record validate returns completeness 0.0,
\* accuracy 100.0, filled_count 0, total_count 21, a missing_fields list of
\* length 35 (every leaf path), and an issue list without any quality
\* issue: it holds delta entries only, and none when the raw extraction
\* is the empty template.
C18_EmptyRecordReportAllLeaves ==
    EmptyRecordValidated =>
        /\ ValidateReturned
        /\ ScoreEq(report.completeness_score, Float(0))
        /\ ScoreEq(report.accuracy_score, Float(100))
        /\ \A i \in DOMAIN report.corrections :
              report.corrections[i].issue_type # "quality"
        /\ raw_extracted = BlankRaw => report.corrections = <<>>
        /\ report.filled_count = 0
        /\ report.total_count = 21
        /\ Len(report.missing_fields) = 35
        /\ Range(report.missing_fields) = Leaves

\* The report of the empty record extracted from an empty answer.
C18_Witness ==
    /\ EmptyRecordValidated
    /\ ValidateReturned
    /\ raw_extracted = BlankRaw
    /\ report.corrections = <<>>
    /\ Len(report.missing_fields) = 35

\* C19: missing_fields of a returned report holds exactly the paths of the
\* empty leaves of the record (scalars by name, sub-fields of composites by
\* dotted path, also in a partly filled composite), each once, and the
\* scores are those computed without it: completeness from the filled
\* count, accuracy from the non-empty leaves and the issue list.
C19_MissingFieldsAreEmptyLeaves ==
    ValidateReturned =>
        /\ Range(report.missing_fields) = Leaves \ NonEmptyLeaves(form_data)
        /\ Len(report.missing_fields)
              = Cardinality(Range(report.missing_fields))
        /\ report.completeness_score
              = Pct(get_filled_fields_count(form_data)[1], 21)
        /\ report.accuracy_score
              = AccuracyOf(Cardinality(NonEmptyLeaves(form_data)),
                           Len(report.corrections))

\* A report on a record whose date of birth has a day but no month or year.
C19_Witness ==
    /\ ValidateReturned
    /\ form_data["dateOfBirth.day"] # <<>>
    /\ "dateOfBirth.month" \in Range(report.missing_fields)
    /\ "dateOfBirth.year" \in Range(report.missing_fields)
    /\ "dateOfBirth.day" \notin Range(report.missing_fields)
    /\ "lastName" \in Range(report.missing_fields)

\* C20: every quality issue of a returned report carries the value of its
\* field in the validated record, separators included; the 'got N' of a
\* postal or ID length issue counts the characters left after removing
\* spaces and hyphens.
C20_IssueCarriesValueVerbatim ==
    ValidateReturned =>
        \A i \in DOMAIN report.corrections :
            LET c == report.corrections[i]
            IN  c.issue_type = "quality" =>
                  /\ c.field \in Leaves
                  /\ c.raw_value = form_data[c.field]
                  /\ c.validated_value = form_data[c.field]
                  /\ (/\ c.field \in {"idNumber", "address.postalCode"}
                      /\ c.reason.args # <<>>)
                     => c.reason.args = <<IntToStr(Len(
                            WithoutChars(form_data[c.field], {" ", "-"})))>>

\* A postal code "12-3" is reported as "12-3", with "got 3".
C20_Witness ==
    /\ ValidateReturned
    /\ form_data["address.postalCode"] = <<"1", "2", "-", "3">>
    /\ Len(ReportedFor("address.postalCode")) = 1
    /\ ReportedFor("address.postalCode")[1].raw_value = <<"1", "2", "-", "3">>
    /\ ReportedFor("address.postalCode")[1].reason.args = <<<<"3">>>>

-----------------------------------------------------------------------------
(* The record and the values supplied to it                                *)

\* form_data is the record constructed from raw_extracted.
RecordConstructed == pc \in {"validated", "eav_done", "validate_done"}

\* stored is supplied without its leading and trailing whitespace.
IsTrimOf(stored, supplied) ==
    \E i \in 1..(Len(supplied) + 1) : \E j \in (i - 1)..Len(supplied) :
        /\ stored = SubSeq(supplied, i, j)
        /\ \A k \in 1..(i - 1) : supplied[k] \in Whitespace
        /\ \A k \in (j + 1)..Len(supplied) : supplied[k] \in Whitespace
        /\ stored # <<>> =>
              stored[1] \notin Whitespace /\ stored[Len(stored)] \notin Whitespace

\* C21 as stated: the record is a passive container: every string supplied
\* for a field is stored, and read back, unchanged.
C21_PassiveContainer ==
    RecordConstructed =>
        \A l \in Leaves :
            raw_extracted[l] # PyNone => form_data[l] = raw_extracted[l]

\* C21: the value stored for a field is the supplied string without its
\* leading and trailing whitespace, and "" for None; the characters in
\* between are kept as supplied, so a string that neither starts nor ends
\* with whitespace is stored unchanged.
C21_StoredValueIsTrimmed ==
    RecordConstructed =>
        \A l \in Leaves :
            IF raw_extracted[l] = PyNone THEN form_data[l] = <<>>
            ELSE /\ IsTrimOf(form_data[l], raw_extracted[l])
                 /\ IsTrimOf(raw_extracted[l], raw_extracted[l])
                       => form_data[l] = raw_extracted[l]

\* A record built from a last name " a" holds "a", one built with ID
\* "8775-24563" holds it with its hyphen.
C21_Witness ==
    /\ RecordConstructed
    /\ raw_extracted["lastName"] = <<" ", "a">>
    /\ form_data["lastName"] = <<"a">>
    /\ form_data["idNumber"] = D(<<8, 7, 7, 5>>) \o <<"-">> \o D(<<2, 4, 5, 6, 3>>)

-----------------------------------------------------------------------------
(* The shape of the report and the UI's issue renderer                     *)

\* C22: a returned report has exactly the keys accuracy_score,
\* completeness_score, corrections, filled_count, total_count,
\* missing_fields and summary, every entry of corrections has exactly the
\* attributes field, value and reason, and the UI's issue renderer, which
\* reads issue.value, renders it.
C22_SerialisedShape ==
    ValidateReturned =>
        /\ DOMAIN report = {"accuracy_score", "completeness_score",
                            "corrections", "filled_count", "total_count",
                            "missing_fields", "summary"}
        /\ \A i \in DOMAIN report.corrections :
              DOMAIN report.corrections[i] = {"field", "value", "reason"}
        /\ render_quality_issues(report) = "rendered"

-----------------------------------------------------------------------------
(* validate as a function of its inputs                                    *)

\* C23: a call of validate, whether it returns a report or raises, leaves
\* every field of the record and the raw extracted dictionary as they
\* were before the call.
C23_ValidateLeavesInputs ==
    [][(pc = "validated" /\ pc' \in {"validate_done", "eav_done"})
          => raw_extracted' = raw_extracted /\ form_data' = form_data]_vars

\* After a call that reported on the ID "8775-24563" of a record with a
\* trimmed last name, the record still is the one built from the raw
\* dictionary, hyphen included.
C23_Witness ==
    /\ ValidateReturned
    /\ report.corrections # <<>>
    /\ raw_extracted["lastName"] = <<" ", "a">>
    /\ form_data = Form283Data(raw_extracted)
    /\ form_data["idNumber"] = D(<<8, 7, 7, 5>>) \o <<"-">> \o D(<<2, 4, 5, 6, 3>>)

\* C24: validate is deterministic: any two calls made on identical
\* arguments, whatever was called in between and whenever, returned
\* identical reports or raised the same exception.
C24_ValidateDeterministic ==
    \A i, j \in DOMAIN history :
        (history[i].raw = history[j].raw /\ history[i].form = history[j].form)
            => history[i].result = history[j].result

\* The record with the year 2027 validated in 2025 and again in 2026, with
\* another record validated in between, and a report with issues each time.
C24_Witness ==
    /\ Len(history) = 3
    /\ history[1].raw = history[3].raw
    /\ history[1].raw # history[2].raw
    /\ history[1].year # history[3].year
    /\ history[1].form["dateOfBirth.year"] = D(<<2, 0, 2, 7>>)
    /\ history[3].result.kind = "returned"
    /\ history[3].result.report.corrections # <<>>

-----------------------------------------------------------------------------
(* process_document                                                        *)

\* C25: process_document on a file that does not exist raises
\* FileNotFoundError, having made no OCR call and no LLM call and written
\* no output file.
C25_MissingFileRaisesFirst ==
    (proc.kind # "none" /\ ~proc.file_exists) =>
        /\ proc.kind = "raised"
        /\ proc.error = "FileNotFoundError"
        /\ proc.calls = <<>>
        /\ proc.written = {}

\* A call on a missing file, with save_output set, that raised.
C25_Witness ==
    /\ proc.kind = "raised"
    /\ ~proc.file_exists
    /\ proc.save_output
    /\ proc.error = "FileNotFoundError"

\* The steps of process_document in their order.
StepOrder == <<"ocr", "extract_fields", "schema", "quality", "save">>

IsPrefix(s, t) == Len(s) <= Len(t) /\ s = SubSeq(t, 1, Len(s))

-----------------------------------------------------------------------------
(* Quality issues and delta corrections                                    *)

\* C27: for every record on which _check_field_quality completes, its
\* issues are at most as many as the non-empty leaves counted by
\* _count_non_empty_fields, each on a non-empty leaf of its own; so a call
\* of validate without delta corrections does not fail on the score bound
\* and returns an accuracy within 0..100.
C27_IssuesWithinNonEmptyLeaves ==
    RecordConstructed =>
        LET q == _check_field_quality(form_data)
            delta == _find_corrections(raw_extracted, form_data)
        IN  ~q.raised =>
              /\ Len(q.issues) <= _count_non_empty_fields(form_data)
              /\ \A i \in DOMAIN q.issues :
                    /\ q.issues[i].field \in NonEmptyLeaves(form_data)
                    /\ \A j \in DOMAIN q.issues :
                          q.issues[i].field = q.issues[j].field => i = j
              /\ (pc = "validate_done" /\ delta = <<>>) =>
                    /\ ValidateReturned
                    /\ ScoreLE(Float(0), report.accuracy_score)
                    /\ ScoreLE(report.accuracy_score, Float(100))

\* A record whose only two non-empty leaves, day 32 and month 13, both
\* have an issue: accuracy 0.
C27_Witness ==
    /\ ValidateReturned
    /\ _find_corrections(raw_extracted, form_data) = <<>>
    /\ _count_non_empty_fields(form_data) = 2
    /\ Len(report.corrections) = 2
    /\ ScoreEq(report.accuracy_score, Float(0))

\* C28: when raw_extracted equals the dump of the record, _find_corrections
\* returns nothing and a returned report holds exactly the quality issues,
\* each with auto_corrected False, issue_type 'quality' and raw_value equal
\* to validated_value; and whatever raw_extracted is, every entry of
\* _find_corrections has auto_corrected True.
C28_EqualRawGivesQualityOnly ==
    RecordConstructed =>
        /\ raw_extracted = model_dump(form_data) =>
              /\ _find_corrections(raw_extracted, form_data) = <<>>
              /\ ValidateReturned =>
                    /\ report.corrections
                          = _check_field_quality(form_data).issues
                    /\ \A i \in DOMAIN report.corrections :
                          LET c == report.corrections[i]
                          IN  /\ ~c.auto_corrected
                              /\ c.issue_type = "quality"
                              /\ c.raw_value = c.validated_value
        /\ LET delta == _find_corrections(raw_extracted, form_data)
           IN  \A i \in DOMAIN delta : delta[i].auto_corrected

\* A report on a record equal to its raw dictionary, with two issues.
C28_Witness ==
    /\ ValidateReturned
    /\ raw_extracted = model_dump(form_data)
    /\ Len(report.corrections) = 2
    /\ form_data["idNumber"] = D(<<1, 2, 3, 4, 5, 6, 7, 8>>)
    /\ form_data["address.postalCode"] = D(<<1, 2, 3>>)

-----------------------------------------------------------------------------
(* The UI session                                                          *)

C30_TempFileLifecycle ==
    [][/\ (ui.temp_files \ ui'.temp_files # {}) =>
             /\ ui.last = "llm"
             /\ ui'.returned
             /\ ui'.session.processed
             /\ ui.temp_files \ ui'.temp_files = {ui'.upload}
       /\ (ui'.started /\ ~ui'.returned
              /\ ui'.last \in {"ocr", "llm", "failed"}) =>
             ui'.wrote_temp /\ ui'.upload \in ui'.temp_files
       /\ ui'.last = "rejected" =>
             /\ ui'.temp_files = ui.temp_files
             /\ ~ui'.wrote_temp
             /\ ~ui'.started]_vars

\* After a failed attempt on a.pdf, b.pdf was rejected for its size: the
\* copy of a.pdf is on disk and none of b.pdf.
C30_Witness ==
    /\ ui.last = "rejected"
    /\ ui.upload = "b.pdf"
    /\ ui.temp_files = {"a.pdf"}
    /\ ui.shown = "size error"

====
